---- MODULE Spec2Model ----
(***************************************************************************)
(* Model of the service-lifecycle tasks of server/website/fabfile.py:      *)
(* start/stop/status of rabbitmq (the broker) and celery (the worker       *)
(* pool), start_debug_server and stop_all.                                 *)
(*                                                                         *)
(* The program is single-threaded and synchronous.  A task invocation is   *)
(* modelled as a call stack of frames; every step of a task that touches   *)
(* the outside world (a fabric local() call, a print) appends an event to  *)
(* `log`, the record of what the invocation did in order.  The results of  *)
(* external commands (exit codes, the supervisor's state token) are        *)
(* inputs chosen nondeterministically.                                     *)
(***************************************************************************)
EXTENDS Integers, Sequences, FiniteSets, TLC

VARIABLES
    task,      \* the task being run (or last run) from the command line
    arg,       \* the `detached` argument the task was given
    stack,     \* call stack of frames, innermost last; <<>> when no task runs
    ret,       \* value returned by the most recent call that returned
    log,       \* events of the current task invocation, in order
    outcome,   \* "none" | "running" | "ok" | "error" for the current task
    prev,      \* [task, outcome] of the task invocation before this one
    hostname   \* output of `hostname`, read once when the fabfile is loaded

vars == <<task, arg, stack, ret, log, outcome, prev, hostname>>

----------------------------------------------------------------------------
(* Bounds and input domains *)

\* Exit codes of external commands range over 0..MaxRetCode.
MaxRetCode == 70

RetCodes == 0..MaxRetCode

\* Second field of the `supervisorctl status celeryd` line, after strip().
Tokens == {"RUNNING", "STOPPED", "STARTING", "FATAL", "BACKOFF", "EXITED", ""}

----------------------------------------------------------------------------
(* Python values *)

\* A function that falls off its end returns None.
None == -1

\* Values that can be passed as `detached`.  A str is a sequence of
\* one-character strings so that lower() is computed, not assumed.
BoolV(b) == [type |-> "bool", b |-> b, s |-> <<>>, n |-> 0]
StrV(s)  == [type |-> "str", b |-> FALSE, s |-> s, n |-> 0]
IntV(n)  == [type |-> "int", b |-> FALSE, s |-> <<>>, n |-> n]
NoneV    == [type |-> "NoneType", b |-> FALSE, s |-> <<>>, n |-> 0]

ArgValues ==
    { BoolV(TRUE), BoolV(FALSE),
      StrV(<<"t", "r", "u", "e">>), StrV(<<"T", "r", "u", "e">>),
      StrV(<<"T", "R", "U", "E">>), StrV(<<"f", "a", "l", "s", "e">>),
      StrV(<<"y", "e", "s">>), StrV(<<>>),
      IntV(1), IntV(0), NoneV }

\* str.lower() on one character, for the letters that occur in ArgValues.
LowerChar(c) ==
    CASE c = "T" -> "t"
      [] c = "R" -> "r"
      [] c = "U" -> "u"
      [] c = "E" -> "e"
      [] c = "F" -> "f"
      [] c = "A" -> "a"
      [] c = "L" -> "l"
      [] c = "S" -> "s"
      [] c = "Y" -> "y"
      [] OTHER -> c

Lower(s) == [i \in 1..Len(s) |-> LowerChar(s[i])]

\* parse_bool(value): [ok, b]; ok = FALSE stands for the raised Exception.
parse_bool(value) ==
    IF value.type = "bool" THEN [ok |-> TRUE, b |-> value.b]
    ELSE IF value.type = "str"
         THEN [ok |-> TRUE, b |-> (Lower(value.s) = <<"t", "r", "u", "e">>)]
         ELSE [ok |-> FALSE, b |-> FALSE]

\* str(n) for a non-negative integer, as a sequence of digit characters.
RECURSIVE Str(_)
Str(n) ==
    LET digit(d) == <<"0", "1", "2", "3", "4", "5", "6", "7", "8", "9">>[d + 1]
    IN  IF n < 10 THEN <<digit(n)>> ELSE Str(n \div 10) \o <<digit(n % 10)>>

----------------------------------------------------------------------------
(* STATUS = Status(0, 1), a namedtuple with fields RUNNING, STOPPED *)

STATUS_fields == <<"RUNNING", "STOPPED">>

STATUS == [RUNNING |-> 0, STOPPED |-> 1]

\* STATUS.index(v): zero-based position of the first element equal to v.
STATUS_index(v) ==
    (CHOOSE i \in 1..Len(STATUS_fields) :
        /\ STATUS[STATUS_fields[i]] = v
        /\ \A j \in 1..(i - 1) : STATUS[STATUS_fields[j]] # v) - 1

\* print_status that indexes the field names by the wrong end.
print_status_reversed(status, task_name) ==
    <<task_name, " status: ",
      STATUS_fields[Len(STATUS_fields) - STATUS_index(status)]>>

\* The line print_status(status, task_name) writes.
print_status(status, task_name) ==
    <<task_name, " status: ", STATUS_fields[STATUS_index(status) + 1]>>

----------------------------------------------------------------------------
(* Events *)

\* Function fn ran local(cmd); the command exited with return code rc and,
\* when captured, wrote stdout.
Local(fn, cmd, rc, stdout) ==
    [kind |-> "local", fn |-> fn, n |-> rc, out |-> stdout, text |-> cmd]

\* Function fn printed one line.
Printed(fn, text) ==
    [kind |-> "print", fn |-> fn, n |-> 0, out |-> "", text |-> text]

\* Function fn returned v to its caller.
Returned(fn, v) ==
    [kind |-> "return", fn |-> fn, n |-> v, out |-> "", text |-> <<>>]

\* Function fn raised an Exception with the given message.
Raised(fn, text) ==
    [kind |-> "raise", fn |-> fn, n |-> 0, out |-> "", text |-> text]

\* fabric aborted the program because the command run by fn exited with rc.
Aborted(fn, rc) ==
    [kind |-> "abort", fn |-> fn, n |-> rc, out |-> "", text |-> <<>>]

----------------------------------------------------------------------------
(* Call stack *)

Frame(fn, pc, detached) ==
    [fn |-> fn, pc |-> pc, detached |-> detached,
     res |-> [return_code |-> 0, stdout |-> ""]]

Top == stack[Len(stack)]

Running(fn, pc) ==
    /\ stack # <<>>
    /\ Top.fn = fn
    /\ Top.pc = pc

\* The running function moves to its next statement.
Goto(pc) ==
    stack' = [stack EXCEPT ![Len(stack)].pc = pc]

\* The running function calls `callee` and continues at pc when it returns.
Call(pc, callee) ==
    stack' = [stack EXCEPT ![Len(stack)].pc = pc] \o <<callee>>

\* The running function returns v, after the events evs.
Return(evs, v) ==
    /\ stack' = SubSeq(stack, 1, Len(stack) - 1)
    /\ ret' = v
    /\ log' = log \o evs \o <<Returned(Top.fn, v)>>
    /\ outcome' = IF Len(stack) = 1 THEN "ok" ELSE outcome
    /\ UNCHANGED <<task, arg, prev, hostname>>

\* An exception or a fabric abort: nothing in these tasks catches it, so the
\* whole stack unwinds and the command ends with an error.
Fail(evs) ==
    /\ stack' = <<>>
    /\ ret' = None
    /\ log' = log \o evs
    /\ outcome' = "error"
    /\ UNCHANGED <<task, arg, prev, hostname>>

----------------------------------------------------------------------------
(* Command lines *)

Hostnames == {"ottertune", "devbox"}

PREFIX == IF hostname = "ottertune" THEN "sudo -u celery " ELSE ""

SUPERVISOR_CONFIG ==
    IF hostname = "ottertune" THEN "-c config/prod_supervisord.conf"
    ELSE "-c config/supervisord.conf"

SUPERVISOR_CMD(action) ==
    <<PREFIX, "supervisorctl ", SUPERVISOR_CONFIG, " ", action, " celeryd">>

RABBITMQ_CMD(action) == <<"sudo rabbitmqctl ", action>>

RABBITMQ_SERVER(detached) ==
    <<"sudo rabbitmq-server">> \o (IF detached THEN <<" -detached">> ELSE <<>>)

CELERY_WORKER == <<PREFIX, "python manage.py celery worker -l info">>

CELERY_STATUS == SUPERVISOR_CMD("status") \o <<" | tr -s ' ' | cut -d ' ' -f2">>

RUNSERVER(host, port) == <<"python manage.py runserver ", host, ":", port>>

----------------------------------------------------------------------------
(* Tasks *)

Tasks ==
    { "start_rabbitmq", "stop_rabbitmq", "status_rabbitmq",
      "start_celery", "stop_celery", "status_celery",
      "start_debug_server", "stop_all" }

\* The first statement of each task.
Entry(t) ==
    CASE t = "start_rabbitmq"     -> "parse"
      [] t = "start_celery"       -> "status"
      [] t = "start_debug_server" -> "status"
      [] t = "stop_all"           -> "stop_celery"
      [] OTHER                    -> "local"

\* The values `fab <task>[:detached=...]` or a Python caller can pass.
Args(t) ==
    IF t \in {"start_rabbitmq", "start_celery"} THEN ArgValues ELSE {NoneV}

Init ==
    /\ task = "none"
    /\ arg = NoneV
    /\ stack = <<>>
    /\ ret = None
    /\ log = <<>>
    /\ outcome = "none"
    /\ prev = [task |-> "none", outcome |-> "none"]
    /\ hostname \in Hostnames

\* A task is run once the previous one has ended.
Invoke ==
    /\ stack = <<>>
    /\ \E t \in Tasks : \E d \in Args(t) :
         /\ task' = t
         /\ arg' = d
         /\ stack' = <<Frame(t, Entry(t), d)>>
    /\ ret' = None
    /\ log' = <<>>
    /\ outcome' = "running"
    /\ prev' = [task |-> task, outcome |-> outcome]
    /\ UNCHANGED hostname

----------------------------------------------------------------------------
(* start_rabbitmq(detached=True) *)

\* detached = parse_bool(detached)
start_rabbitmq_parse ==
    /\ Running("start_rabbitmq", "parse")
    /\ LET p == parse_bool(Top.detached)
       IN  IF p.ok
           THEN /\ stack' = [stack EXCEPT ![Len(stack)].pc = "local",
                                          ![Len(stack)].detached = BoolV(p.b)]
                /\ UNCHANGED <<task, arg, ret, log, outcome, prev, hostname>>
           ELSE Fail(<<Raised("parse_bool",
                        <<"Cannot convert ", "<type '", Top.detached.type, "'>",
                          " to bool">>)>>)

\* start_rabbitmq run under warn_only: a failed start goes unnoticed.
start_rabbitmq_local_warn_only ==
    /\ Running("start_rabbitmq", "local")
    /\ \E rc \in RetCodes :
         Return(<<Local(Top.fn, RABBITMQ_SERVER(Top.detached.b), rc, "")>>,
                None)

\* local(cmd): no warn_only, so a nonzero exit aborts the program.
start_rabbitmq_local ==
    /\ Running("start_rabbitmq", "local")
    /\ \E rc \in RetCodes :
         LET cmd == RABBITMQ_SERVER(Top.detached.b)
         IN  IF rc # 0
             THEN Fail(<<Local(Top.fn, cmd, rc, ""), Aborted(Top.fn, rc)>>)
             ELSE Return(<<Local(Top.fn, cmd, rc, "")>>, None)

----------------------------------------------------------------------------
(* stop_rabbitmq() *)

\* stop_rabbitmq without warn_only: a nonzero exit aborts the program.
stop_rabbitmq_local_fatal ==
    /\ Running("stop_rabbitmq", "local")
    /\ \E rc \in RetCodes :
         LET cmd == RABBITMQ_CMD("stop")
         IN  IF rc # 0
             THEN Fail(<<Local(Top.fn, cmd, rc, ""), Aborted(Top.fn, rc)>>)
             ELSE Return(<<Local(Top.fn, cmd, rc, "")>>, None)

\* with settings(warn_only=True): local(...): any exit code is accepted.
stop_rabbitmq_local ==
    /\ Running("stop_rabbitmq", "local")
    /\ \E rc \in RetCodes :
         Return(<<Local("stop_rabbitmq", RABBITMQ_CMD("stop"), rc, "")>>, None)

----------------------------------------------------------------------------
(* status_rabbitmq() *)

\* status_rabbitmq that takes every unrecognised exit code for RUNNING.
rabbitmq_status_default_running(return_code) ==
    IF return_code = 2 \/ return_code = 69
    THEN [ok |-> TRUE, status |-> STATUS.STOPPED]
    ELSE [ok |-> TRUE, status |-> STATUS.RUNNING]

\* status_rabbitmq that knows only exit code 2 as "not running".
rabbitmq_status_only_2(return_code) ==
    IF return_code = 2
    THEN [ok |-> TRUE, status |-> STATUS.STOPPED]
    ELSE IF return_code = 0
         THEN [ok |-> TRUE, status |-> STATUS.RUNNING]
         ELSE [ok |-> FALSE, status |-> None]

\* The status for a return code; ok = FALSE stands for the raised Exception.
rabbitmq_status(return_code) ==
    IF return_code = 2 \/ return_code = 69
    THEN [ok |-> TRUE, status |-> STATUS.STOPPED]
    ELSE IF return_code = 0
         THEN [ok |-> TRUE, status |-> STATUS.RUNNING]
         ELSE [ok |-> FALSE, status |-> None]

\* res = local(RABBITMQ_CMD(action='status'), capture=True) under warn_only.
status_rabbitmq_local ==
    /\ Running("status_rabbitmq", "local")
    /\ \E rc \in RetCodes :
         /\ stack' = [stack EXCEPT ![Len(stack)].pc = "decide",
                                   ![Len(stack)].res.return_code = rc]
         /\ log' = Append(log, Local("status_rabbitmq",
                                       RABBITMQ_CMD("status"), rc, ""))
    /\ UNCHANGED <<task, arg, ret, outcome, prev, hostname>>

\* The if/elif/else on res.return_code, the two prints and the return.
status_rabbitmq_decide ==
    /\ Running("status_rabbitmq", "decide")
    /\ LET r == rabbitmq_status(Top.res.return_code)
       IN  IF r.ok
           THEN Return(<<Printed("status_rabbitmq", Str(r.status)),
                         Printed("print_status",
                                 print_status(r.status, "rabbitmq"))>>,
                       r.status)
           ELSE Fail(<<Raised("status_rabbitmq",
                        <<"Rabbitmq: unknown status ">>
                            \o Str(Top.res.return_code))>>)

----------------------------------------------------------------------------
(* start_celery(detached=True) *)

\* start_celery guarded by the pool's own status instead of the broker's.
start_celery_status_pool_guard ==
    /\ Running("start_celery", "status")
    /\ Call("check", Frame("status_celery", "local", NoneV))
    /\ UNCHANGED <<task, arg, ret, log, outcome, prev, hostname>>

\* status_rabbitmq() is called first.
start_celery_status ==
    /\ Running("start_celery", "status")
    /\ Call("check", Frame("status_rabbitmq", "local", NoneV))
    /\ UNCHANGED <<task, arg, ret, log, outcome, prev, hostname>>

\* start_celery without the dependency rule: the broker is never started.
start_celery_check_no_broker_start ==
    /\ Running("start_celery", "check")
    /\ Goto("parse")
    /\ UNCHANGED <<task, arg, ret, log, outcome, prev, hostname>>

\* start_celery that starts the broker whatever its status.
start_celery_check_always_start ==
    /\ Running("start_celery", "check")
    /\ Call("parse", Frame("start_rabbitmq", "parse", BoolV(TRUE)))
    /\ UNCHANGED <<task, arg, ret, log, outcome, prev, hostname>>

\* start_celery that hands its own `detached` on to start_rabbitmq.
start_celery_check_pass_detached ==
    /\ Running("start_celery", "check")
    /\ IF ret = STATUS.STOPPED
       THEN Call("parse", Frame("start_rabbitmq", "parse", Top.detached))
       ELSE Goto("parse")
    /\ UNCHANGED <<task, arg, ret, log, outcome, prev, hostname>>

\* if status_rabbitmq() == STATUS.STOPPED: start_rabbitmq()
start_celery_check ==
    /\ Running("start_celery", "check")
    /\ IF ret = STATUS.STOPPED
       THEN Call("parse", Frame("start_rabbitmq", "parse", BoolV(TRUE)))
       ELSE Goto("parse")
    /\ UNCHANGED <<task, arg, ret, log, outcome, prev, hostname>>

\* detached = parse_bool(detached)
start_celery_parse ==
    /\ Running("start_celery", "parse")
    /\ LET p == parse_bool(Top.detached)
       IN  IF p.ok
           THEN /\ stack' = [stack EXCEPT ![Len(stack)].pc = "local",
                                          ![Len(stack)].detached = BoolV(p.b)]
                /\ UNCHANGED <<task, arg, ret, log, outcome, prev, hostname>>
           ELSE Fail(<<Raised("parse_bool",
                        <<"Cannot convert ", "<type '", Top.detached.type, "'>",
                          " to bool">>)>>)

\* start_celery that ignores `detached` and always uses the supervisor.
start_celery_local_always_managed ==
    /\ Running("start_celery", "local")
    /\ \E rc \in RetCodes :
         LET cmd == SUPERVISOR_CMD("start")
         IN  IF rc # 0
             THEN Fail(<<Local(Top.fn, cmd, rc, ""), Aborted(Top.fn, rc)>>)
             ELSE Return(<<Local(Top.fn, cmd, rc, "")>>, None)

\* The supervisor start action, or the foreground worker; no warn_only.
start_celery_local ==
    /\ Running("start_celery", "local")
    /\ \E rc \in RetCodes :
         LET cmd == IF Top.detached.b THEN SUPERVISOR_CMD("start")
                    ELSE CELERY_WORKER
         IN  IF rc # 0
             THEN Fail(<<Local(Top.fn, cmd, rc, ""), Aborted(Top.fn, rc)>>)
             ELSE Return(<<Local(Top.fn, cmd, rc, "")>>, None)

----------------------------------------------------------------------------
(* stop_celery() *)

\* local(SUPERVISOR_CMD(action='stop')): no warn_only.
stop_celery_local ==
    /\ Running("stop_celery", "local")
    /\ \E rc \in RetCodes :
         LET cmd == SUPERVISOR_CMD("stop")
         IN  IF rc # 0
             THEN Fail(<<Local(Top.fn, cmd, rc, ""), Aborted(Top.fn, rc)>>)
             ELSE Return(<<Local(Top.fn, cmd, rc, "")>>, None)

----------------------------------------------------------------------------
(* status_celery() *)

\* status_celery without the KeyError handler for STARTING and FATAL.
celery_status_no_handler(stdout) ==
    IF stdout \in DOMAIN STATUS
    THEN [ok |-> TRUE, status |-> STATUS[stdout]]
    ELSE [ok |-> FALSE, status |-> None]

\* status_celery that reports a FATAL pool as RUNNING.
celery_status_fatal_running(stdout) ==
    IF stdout \in DOMAIN STATUS
    THEN [ok |-> TRUE, status |-> STATUS[stdout]]
    ELSE IF stdout \in {"STARTING", "FATAL"}
         THEN [ok |-> TRUE, status |-> STATUS.RUNNING]
         ELSE [ok |-> FALSE, status |-> None]

\* STATUS._asdict()[stdout], with the KeyError handler; ok = FALSE stands
\* for the re-raised KeyError.
celery_status(stdout) ==
    IF stdout \in DOMAIN STATUS
    THEN [ok |-> TRUE, status |-> STATUS[stdout]]
    ELSE IF stdout = "STARTING"
         THEN [ok |-> TRUE, status |-> STATUS.RUNNING]
         ELSE IF stdout = "FATAL"
              THEN [ok |-> TRUE, status |-> STATUS.STOPPED]
              ELSE [ok |-> FALSE, status |-> None]

\* res = local(<status> | tr | cut, capture=True).  The shell reports the
\* exit status of the pipeline's last command, cut, which is 0 whatever
\* supervisorctl's own exit status was.
status_celery_local ==
    /\ Running("status_celery", "local")
    /\ \E token \in Tokens :
         /\ stack' = [stack EXCEPT ![Len(stack)].pc = "decide",
                                   ![Len(stack)].res.stdout = token]
         /\ log' = Append(log, Local("status_celery", CELERY_STATUS, 0, token))
    /\ UNCHANGED <<task, arg, ret, outcome, prev, hostname>>

\* The try/except on the token, the print and the return.
status_celery_decide ==
    /\ Running("status_celery", "decide")
    /\ LET r == celery_status(Top.res.stdout)
       IN  IF r.ok
           THEN Return(<<Printed("print_status",
                                 print_status(r.status, "celery"))>>,
                       r.status)
           ELSE Fail(<<Raised("status_celery", <<Top.res.stdout>>)>>)

----------------------------------------------------------------------------
(* start_debug_server(host="0.0.0.0", port=8000) *)

start_debug_server_status ==
    /\ Running("start_debug_server", "status")
    /\ Call("check", Frame("status_celery", "local", NoneV))
    /\ UNCHANGED <<task, arg, ret, log, outcome, prev, hostname>>

\* start_debug_server that never starts the pool.
start_debug_server_check_no_start ==
    /\ Running("start_debug_server", "check")
    /\ Goto("local")
    /\ UNCHANGED <<task, arg, ret, log, outcome, prev, hostname>>

\* if status_celery() == STATUS.STOPPED: start_celery()
start_debug_server_check ==
    /\ Running("start_debug_server", "check")
    /\ IF ret = STATUS.STOPPED
       THEN Call("local", Frame("start_celery", "status", BoolV(TRUE)))
       ELSE Goto("local")
    /\ UNCHANGED <<task, arg, ret, log, outcome, prev, hostname>>

\* local('python manage.py runserver host:port'): no warn_only.
start_debug_server_local ==
    /\ Running("start_debug_server", "local")
    /\ \E rc \in RetCodes :
         LET cmd == RUNSERVER("0.0.0.0", Str(8000))
         IN  IF rc # 0
             THEN Fail(<<Local(Top.fn, cmd, rc, ""), Aborted(Top.fn, rc)>>)
             ELSE Return(<<Local(Top.fn, cmd, rc, "")>>, None)

----------------------------------------------------------------------------
(* stop_all() *)

\* stop_all that stops the broker first.
stop_all_broker_first ==
    /\ Running("stop_all", "stop_celery")
    /\ Call("stop_rabbitmq", Frame("stop_rabbitmq", "local", NoneV))
    /\ UNCHANGED <<task, arg, ret, log, outcome, prev, hostname>>

stop_all_stop_celery ==
    /\ Running("stop_all", "stop_celery")
    /\ Call("stop_rabbitmq", Frame("stop_celery", "local", NoneV))
    /\ UNCHANGED <<task, arg, ret, log, outcome, prev, hostname>>

stop_all_stop_rabbitmq ==
    /\ Running("stop_all", "stop_rabbitmq")
    /\ Call("end", Frame("stop_rabbitmq", "local", NoneV))
    /\ UNCHANGED <<task, arg, ret, log, outcome, prev, hostname>>

stop_all_end ==
    /\ Running("stop_all", "end")
    /\ Return(<<>>, None)

----------------------------------------------------------------------------

Next ==
    \/ Invoke
    \/ start_rabbitmq_parse
    \/ start_rabbitmq_local
    \/ stop_rabbitmq_local
    \/ status_rabbitmq_local
    \/ status_rabbitmq_decide
    \/ start_celery_status
    \/ start_celery_check
    \/ start_celery_parse
    \/ start_celery_local
    \/ stop_celery_local
    \/ status_celery_local
    \/ status_celery_decide
    \/ start_debug_server_status
    \/ start_debug_server_check
    \/ start_debug_server_local
    \/ stop_all_stop_celery
    \/ stop_all_stop_rabbitmq
    \/ stop_all_end

Spec == Init /\ [][Next]_vars

----------------------------------------------------------------------------
(* Reading the log *)

Idx == 1..Len(log)

InStack(fn) == \E k \in 1..Len(stack) : stack[k].fn = fn

\* The task has ended, normally or with an error.
Ended == stack = <<>> /\ outcome \in {"ok", "error"}

BrokerStatusAt(i) == log[i].kind = "local" /\ log[i].text = RABBITMQ_CMD("status")

BrokerStartAt(i) ==
    /\ log[i].kind = "local"
    /\ log[i].text \in {RABBITMQ_SERVER(TRUE), RABBITMQ_SERVER(FALSE)}

BrokerStopAt(i) == log[i].kind = "local" /\ log[i].text = RABBITMQ_CMD("stop")

PoolStatusAt(i) == log[i].kind = "local" /\ log[i].text = CELERY_STATUS

PoolStartAt(i) ==
    /\ log[i].kind = "local"
    /\ log[i].text \in {SUPERVISOR_CMD("start"), CELERY_WORKER}

PoolStopAt(i) == log[i].kind = "local" /\ log[i].text = SUPERVISOR_CMD("stop")

\* The broker status command of this invocation exited with 2 or 69.
BrokerReportedStopped == \E i \in Idx : BrokerStatusAt(i) /\ log[i].n \in {2, 69}

BrokerStarts == {i \in Idx : BrokerStartAt(i)}

\* start_celery runs in this invocation, as the task or inside
\* start_debug_server.
RunsStartCelery == task \in {"start_celery", "start_debug_server"}

----------------------------------------------------------------------------
(* C1 *)

\* C1: in an execution of start_celery whose broker status query reported
\* STOPPED (exit code 2 or 69), the broker start command is never issued
\* twice, has been issued exactly once when start_celery has ended, and
\* precedes every worker-pool start command.
C1_BrokerStartedOnceBeforePool ==
    (RunsStartCelery /\ BrokerReportedStopped) =>
        /\ Cardinality(BrokerStarts) <= 1
        /\ ~InStack("start_celery") => Cardinality(BrokerStarts) = 1
        /\ \A j \in Idx : PoolStartAt(j) => \E i \in 1..(j - 1) : BrokerStartAt(i)

\* start_celery found the broker stopped, started it and started the pool.
C1_Witness ==
    /\ task = "start_celery"
    /\ outcome = "ok"
    /\ BrokerReportedStopped
    /\ \E j \in Idx : PoolStartAt(j)

----------------------------------------------------------------------------
(* C2 *)

BrokerStatuses == {i \in Idx : BrokerStatusAt(i)}

\* The index of the last broker status query before position j.
LastBrokerStatusBefore(j) ==
    CHOOSE i \in BrokerStatuses :
        i < j /\ \A k \in BrokerStatuses : k < j => k <= i

\* C2 as claimed: the most recent broker status result preceding a
\* worker-pool start is RUNNING (exit code 0).
C2_PoolStartAfterRunningStatus ==
    \A j \in Idx :
        (RunsStartCelery /\ PoolStartAt(j)) =>
            /\ \E i \in BrokerStatuses : i < j
            /\ log[LastBrokerStatusBefore(j)].n = 0

\* C2 amended: the broker status is queried exactly once before a
\* worker-pool start; it returned RUNNING, or it returned STOPPED and a
\* broker start command issued after it exited with code 0.  The status is
\* not queried again after the broker start.
C2_PoolStartAfterStatusOrStart ==
    \A j \in Idx :
        (RunsStartCelery /\ PoolStartAt(j)) =>
            /\ Cardinality({i \in BrokerStatuses : i < j}) = 1
            /\ LET i == LastBrokerStatusBefore(j)
               IN  \/ log[i].n = 0
                   \/ /\ log[i].n \in {2, 69}
                      /\ \E k \in (i + 1)..(j - 1) :
                            BrokerStartAt(k) /\ log[k].n = 0

\* The pool is started after a STOPPED status and a successful broker start.
C2_Witness ==
    /\ RunsStartCelery
    /\ \E j \in Idx :
         /\ PoolStartAt(j)
         /\ log[LastBrokerStatusBefore(j)].n = 69
         /\ \E k \in 1..(j - 1) : BrokerStartAt(k) /\ log[k].n = 0

----------------------------------------------------------------------------
(* C3, C4 *)

\* C3: in stop_all the broker stop command is issued at most once and only
\* after a worker-pool stop command of the same call.
C3_PoolStopBeforeBrokerStop ==
    task = "stop_all" =>
        /\ Cardinality({j \in Idx : BrokerStopAt(j)}) <= 1
        /\ \A j \in Idx :
             BrokerStopAt(j) => \E i \in 1..(j - 1) : PoolStopAt(i)

\* stop_all has stopped the pool and then the broker.
C3_Witness ==
    /\ task = "stop_all"
    /\ outcome = "ok"
    /\ \E i, j \in Idx : i < j /\ PoolStopAt(i) /\ BrokerStopAt(j)

\* C4: every execution of stop_all that has ended has issued the broker
\* stop command, also when the worker-pool stop command exited nonzero.
C4_BrokerStopAlwaysIssued ==
    (task = "stop_all" /\ Ended) => \E j \in Idx : BrokerStopAt(j)

----------------------------------------------------------------------------
(* C5 *)

\* C5: when a stop task is run twice in succession and the first call ended
\* without error, the second call ends without error too.
C5_SecondStopNoError ==
    ( /\ task \in {"stop_rabbitmq", "stop_celery"}
      /\ prev.task = task
      /\ prev.outcome = "ok"
      /\ Ended ) => outcome = "ok"

----------------------------------------------------------------------------
(* C6 *)

\* The number a sequence of decimal digit characters denotes.
RECURSIVE DecimalValue(_)
DecimalValue(ds) ==
    LET value(c) == CHOOSE d \in 0..9 :
                        <<"0", "1", "2", "3", "4", "5", "6", "7", "8", "9">>[d + 1] = c
    IN  IF ds = <<>> THEN 0
        ELSE 10 * DecimalValue(SubSeq(ds, 1, Len(ds) - 1)) + value(ds[Len(ds)])

\* C6: once status_rabbitmq has acted on the exit code of the broker status
\* command: code 0 returns RUNNING, codes 2 and 69 return STOPPED, and any
\* other code ends the task with an exception whose message carries the
\* code; in that case status_rabbitmq returns nothing.
C6_BrokerStatusMapping ==
    \A i \in Idx :
        (BrokerStatusAt(i) /\ Len(log) > i) =>
            LET rc == log[i].n
                returns == {k \in Idx : k > i /\ log[k].kind = "return"
                                       /\ log[k].fn = "status_rabbitmq"}
            IN  CASE rc = 0 ->
                         \E k \in returns : log[k].n = STATUS.RUNNING
                  [] rc \in {2, 69} ->
                         \E k \in returns : log[k].n = STATUS.STOPPED
                  [] OTHER ->
                         /\ returns = {}
                         /\ Len(log) = i + 1
                         /\ log[i + 1].kind = "raise"
                         /\ log[i + 1].text[1] = "Rabbitmq: unknown status "
                         /\ DecimalValue(Tail(log[i + 1].text)) = rc
                         /\ outcome = "error"
                         /\ ret = None

\* status_rabbitmq failed on an exit code other than 0, 2 and 69.
C6_Witness ==
    /\ task = "status_rabbitmq"
    /\ outcome = "error"
    /\ BrokerStatusAt(1)
    /\ log[1].n = 70

----------------------------------------------------------------------------
(* C7 *)

\* C7: once status_celery has acted on the supervisor's state token:
\* RUNNING and STARTING return RUNNING, STOPPED and FATAL return STOPPED,
\* and any other token (the empty one included) ends the task with an
\* exception; in that case status_celery returns nothing.
C7_PoolStatusMapping ==
    \A i \in Idx :
        (PoolStatusAt(i) /\ Len(log) > i) =>
            LET token == log[i].out
                returns == {k \in Idx : k > i /\ log[k].kind = "return"
                                       /\ log[k].fn = "status_celery"}
            IN  CASE token \in {"RUNNING", "STARTING"} ->
                         \E k \in returns : log[k].n = STATUS.RUNNING
                  [] token \in {"STOPPED", "FATAL"} ->
                         \E k \in returns : log[k].n = STATUS.STOPPED
                  [] OTHER ->
                         /\ returns = {}
                         /\ Len(log) = i + 1
                         /\ log[i + 1].kind = "raise"
                         /\ outcome = "error"
                         /\ ret = None

\* status_celery returned STOPPED for the token FATAL.
C7_Witness ==
    /\ task = "status_celery"
    /\ outcome = "ok"
    /\ PoolStatusAt(1)
    /\ log[1].out = "FATAL"
    /\ ret = STATUS.STOPPED

----------------------------------------------------------------------------
(* C8 *)

\* C8: when parse_bool rejects the `detached` argument, no broker status
\* query, broker start or worker-pool start command has been issued.
C8_InvalidArgumentBeforeCommands ==
    \A i \in Idx :
        (log[i].kind = "raise" /\ log[i].fn = "parse_bool") =>
            \A k \in 1..(i - 1) :
                ~(BrokerStatusAt(k) \/ BrokerStartAt(k) \/ PoolStartAt(k))

----------------------------------------------------------------------------
(* C9 *)

CliTasks == Tasks \ {"start_debug_server"}

\* A status query of this invocation failed on an unknown status value.
UnknownStatusSeen ==
    \E i \in Idx :
        /\ log[i].kind = "raise"
        /\ log[i].fn \in {"status_rabbitmq", "status_celery"}

\* parse_bool rejected the `detached` argument of this invocation.
InvalidArgumentSeen ==
    \E i \in Idx : log[i].kind = "raise" /\ log[i].fn = "parse_bool"

\* C9: a CLI operation given a valid argument ends with an error exactly
\* when a status query inside it observed an unknown status; whatever the
\* start and stop commands exit with, it ends successfully.
C9_ErrorOnlyOnUnknownStatus ==
    (task \in CliTasks /\ Ended /\ ~InvalidArgumentSeen) =>
        (outcome = "error" <=> UnknownStatusSeen)

----------------------------------------------------------------------------
(* C10 *)

ServiceOf(fn) == IF fn = "status_rabbitmq" THEN "rabbitmq" ELSE "celery"

StatusLineAt(i) ==
    /\ log[i].kind = "print"
    /\ Len(log[i].text) = 3
    /\ log[i].text[2] = " status: "

\* C10: a status query that returns a value has just printed
\* "<service> status: <NAME>" with its own service and the name of the value
\* it returns; a status query that fails has printed nothing; and no status
\* line is printed other than by a status query that then returns.
C10_StatusLinePrinted ==
    \A i \in Idx :
        /\ ( /\ log[i].kind = "return"
             /\ log[i].fn \in {"status_rabbitmq", "status_celery"} ) =>
               /\ i > 1
               /\ log[i - 1].kind = "print"
               /\ log[i - 1].text =
                      <<ServiceOf(log[i].fn), " status: ",
                        IF log[i].n = 0 THEN "RUNNING" ELSE "STOPPED">>
               /\ log[i].n \in {0, 1}
        /\ ( /\ log[i].kind = "raise"
             /\ log[i].fn \in {"status_rabbitmq", "status_celery"} ) =>
               /\ i > 1
               /\ log[i - 1].kind = "local"
               /\ log[i - 1].fn = log[i].fn
        /\ StatusLineAt(i) =>
               /\ i < Len(log)
               /\ log[i + 1].kind = "return"
               /\ log[i + 1].fn \in {"status_rabbitmq", "status_celery"}

\* Inside start_debug_server both nested status queries returned STOPPED
\* and printed their lines.
C10_Witness ==
    /\ task = "start_debug_server"
    /\ \E i, j \in Idx :
         /\ i < j
         /\ log[i] = Returned("status_celery", STATUS.STOPPED)
         /\ log[j] = Returned("status_rabbitmq", STATUS.STOPPED)
         /\ log[j - 1].text = <<"rabbitmq", " status: ", "STOPPED">>
         /\ log[i - 1].text = <<"celery", " status: ", "STOPPED">>

----------------------------------------------------------------------------
(* C11 *)

Locals == {i \in Idx : log[i].kind = "local"}

PoolStarts == {i \in Idx : PoolStartAt(i)}

\* C11: start_rabbitmq never queries a status and, when it ends
\* successfully, has issued the broker start command exactly once;
\* start_celery never queries the worker pool's status and, when it ends
\* successfully, has issued a worker-pool start command exactly once.
C11_StartUnguarded ==
    /\ task = "start_rabbitmq" =>
          /\ \A i \in Idx : ~BrokerStatusAt(i) /\ ~PoolStatusAt(i)
          /\ outcome = "ok" =>
                Cardinality(BrokerStarts) = 1 /\ Locals = BrokerStarts
    /\ task = "start_celery" =>
          /\ \A i \in Idx : ~PoolStatusAt(i)
          /\ outcome = "ok" => Cardinality(PoolStarts) = 1

\* start_celery ended successfully with the broker reported RUNNING.
C11_Witness ==
    /\ task = "start_celery"
    /\ outcome = "ok"
    /\ BrokerStatusAt(1)
    /\ log[1].n = 0
    /\ Cardinality(PoolStarts) = 1

----------------------------------------------------------------------------
(* C12 *)

DebugServerAt(i) ==
    log[i].kind = "local" /\ log[i].fn = "start_debug_server"

\* C12: in start_debug_server the debug server command is issued only after
\* status_celery has returned and, when it returned STOPPED, after
\* start_celery has returned; every broker start precedes every pool start
\* and both precede the debug server; nothing raised or aborted before it
\* and every start command before it exited with code 0.
C12_DebugServerLast ==
    task = "start_debug_server" =>
        \A j \in Idx : DebugServerAt(j) =>
            /\ \E i \in 1..(j - 1) :
                  /\ log[i].kind = "return"
                  /\ log[i].fn = "status_celery"
                  /\ log[i].n = STATUS.STOPPED =>
                        \E k \in (i + 1)..(j - 1) :
                            log[k] = Returned("start_celery", None)
            /\ \A i \in Idx : (BrokerStartAt(i) \/ PoolStartAt(i)) => i < j
            /\ \A i, k \in Idx : (BrokerStartAt(i) /\ PoolStartAt(k)) => i < k
            /\ \A i \in 1..(j - 1) : log[i].kind \notin {"raise", "abort"}
            /\ \A i \in 1..(j - 1) :
                  (BrokerStartAt(i) \/ PoolStartAt(i)) => log[i].n = 0

\* The debug server was launched after the broker and the pool were started.
C12_Witness ==
    /\ task = "start_debug_server"
    /\ \E i, k, j \in Idx :
         i < k /\ k < j /\ BrokerStartAt(i) /\ PoolStartAt(k) /\ DebugServerAt(j)

----------------------------------------------------------------------------
(* C13 *)

\* C13: stop_rabbitmq never aborts, whatever the broker stop command exits
\* with; run as a task it ends successfully having issued exactly one
\* external command, the broker stop, and no status query.
C13_StopRabbitmqNeverFails ==
    /\ \A i \in Idx : ~(log[i].kind = "abort" /\ log[i].fn = "stop_rabbitmq")
    /\ (task = "stop_rabbitmq" /\ Ended) =>
          /\ outcome = "ok"
          /\ Cardinality(Locals) = 1
          /\ \A i \in Locals : BrokerStopAt(i)

\* stop_rabbitmq ended successfully although the stop command exited 69.
C13_Witness ==
    /\ task = "stop_rabbitmq"
    /\ outcome = "ok"
    /\ BrokerStopAt(1)
    /\ log[1].n = 69

----------------------------------------------------------------------------
(* C14 *)

\* The values of `detached` that mean true, and those that mean false.
TrueForms ==
    { BoolV(TRUE), StrV(<<"t", "r", "u", "e">>), StrV(<<"T", "r", "u", "e">>),
      StrV(<<"T", "R", "U", "E">>) }

FalseForms == { BoolV(FALSE), StrV(<<"f", "a", "l", "s", "e">>) }

ManagedStartAt(i) == log[i].kind = "local" /\ log[i].text = SUPERVISOR_CMD("start")

ForegroundWorkerAt(i) == log[i].kind = "local" /\ log[i].text = CELERY_WORKER

\* C14: start_celery issues at most one pool start command, exactly one
\* when it ends successfully: the supervisor 'start' action and never the
\* foreground worker when detached is true, the foreground worker and never
\* the supervisor 'start' action when detached is false.  The broker status
\* query, and the broker start when the status was STOPPED, precede it.
C14_DetachedSelectsCommand ==
    (task = "start_celery" /\ arg \in TrueForms \cup FalseForms) =>
        /\ Cardinality(PoolStarts) <= 1
        /\ outcome = "ok" => Cardinality(PoolStarts) = 1
        /\ arg \in TrueForms => \A i \in Idx : ~ForegroundWorkerAt(i)
        /\ arg \in FalseForms => \A i \in Idx : ~ManagedStartAt(i)
        /\ \A j \in PoolStarts :
             /\ \E i \in 1..(j - 1) : BrokerStatusAt(i)
             /\ BrokerReportedStopped => \E i \in 1..(j - 1) : BrokerStartAt(i)

\* start_celery(detached=False) ran the worker in the foreground.
C14_Witness ==
    /\ task = "start_celery"
    /\ arg = BoolV(FALSE)
    /\ outcome = "ok"
    /\ \E i \in Idx : ForegroundWorkerAt(i)

----------------------------------------------------------------------------
(* C15 *)

\* Values that are neither a boolean nor a textual form of true or false.
UnrecognisedForms ==
    { StrV(<<"y", "e", "s">>), StrV(<<>>), IntV(1), IntV(0), NoneV }

\* C15: parse_bool raises on every value that is neither a boolean nor a
\* recognised textual form of true or false: once start_rabbitmq has parsed
\* such a `detached`, the invalid argument has been raised.
C15_UnrecognisedFormsRejected ==
    ( /\ task = "start_rabbitmq"
      /\ arg \in UnrecognisedForms
      /\ ~Running("start_rabbitmq", "parse") ) => InvalidArgumentSeen

----------------------------------------------------------------------------
(* C16 *)

\* C16: when the broker status command inside start_celery exits with a
\* code other than 0, 2 and 69, start_celery ends at once with the
\* exception: the status command was run once and no broker start and no
\* worker-pool start command is issued.
C16_UnknownBrokerStatusAborts ==
    \A i \in Idx :
        ( /\ RunsStartCelery
          /\ BrokerStatusAt(i)
          /\ log[i].n \notin {0, 2, 69}
          /\ Len(log) > i ) =>
            /\ Len(log) = i + 1
            /\ log[i + 1].kind = "raise"
            /\ log[i + 1].fn = "status_rabbitmq"
            /\ Ended /\ outcome = "error"
            /\ BrokerStarts = {}
            /\ PoolStarts = {}
            /\ Cardinality(BrokerStatuses) = 1

\* start_celery was aborted by the unknown broker status 70.
C16_Witness ==
    /\ task = "start_celery"
    /\ outcome = "error"
    /\ Len(log) = 2
    /\ BrokerStatusAt(1)
    /\ log[1].n = 70

----------------------------------------------------------------------------
(* C17 *)

\* start_celery has got the result of its broker status query and is past
\* the statement that acts on it, the call of start_rabbitmq included.
BrokerRuleApplied ==
    /\ \E i \in Idx : log[i].kind = "return" /\ log[i].fn = "status_rabbitmq"
    /\ ~Running("start_celery", "check")
    /\ ~InStack("start_rabbitmq")

\* C17: in start_celery a broker start command is issued only after the
\* broker status query reported STOPPED, never when it reported RUNNING
\* (exit code 0); once start_celery has acted on the status, the broker
\* start has been issued if and only if the status was STOPPED.
C17_BrokerStartIffStopped ==
    RunsStartCelery =>
        /\ \A j \in BrokerStarts :
             \E i \in 1..(j - 1) : BrokerStatusAt(i) /\ log[i].n \in {2, 69}
        /\ (\E i \in Idx : BrokerStatusAt(i) /\ log[i].n = 0) => BrokerStarts = {}
        /\ BrokerRuleApplied => (BrokerStarts # {} <=> BrokerReportedStopped)

\* start_celery ended successfully on a RUNNING broker without starting it.
C17_Witness ==
    /\ task = "start_celery"
    /\ outcome = "ok"
    /\ \E i \in Idx : BrokerStatusAt(i) /\ log[i].n = 0
    /\ BrokerStarts = {}
    /\ PoolStarts # {}

----------------------------------------------------------------------------
(* C18 *)

\* C18: the broker start issued by start_celery is always
\* `sudo rabbitmq-server -detached`, whatever `detached` start_celery was
\* given, and the pool start issued by start_debug_server is always the
\* supervisor 'start' action.
C18_DependencyStartsDetached ==
    /\ RunsStartCelery =>
          \A i \in BrokerStarts :
              log[i].text = <<"sudo rabbitmq-server", " -detached">>
    /\ task = "start_debug_server" =>
          \A i \in PoolStarts : ManagedStartAt(i)

\* start_celery(detached=False) started the broker detached and then ran
\* the worker in the foreground.
C18_Witness ==
    /\ task = "start_celery"
    /\ arg = BoolV(FALSE)
    /\ \E i, j \in Idx :
         /\ i < j
         /\ log[i].kind = "local"
         /\ log[i].text = <<"sudo rabbitmq-server", " -detached">>
         /\ ForegroundWorkerAt(j)

----------------------------------------------------------------------------
(* C19 *)

\* The token the worker-pool status command of this invocation produced.
PoolTokenIs(tokens) == \E i \in Idx : PoolStatusAt(i) /\ log[i].out \in tokens

\* C19: in start_debug_server, for the tokens RUNNING and STARTING no
\* broker status query, broker start or pool start command is ever issued;
\* for the tokens STOPPED and FATAL start_celery is invoked: its broker
\* status query precedes the debug server command and has been issued once
\* start_debug_server has ended.
C19_StartCeleryIffPoolStopped ==
    task = "start_debug_server" =>
        /\ PoolTokenIs({"RUNNING", "STARTING"}) =>
              \A i \in Idx :
                  ~(BrokerStatusAt(i) \/ BrokerStartAt(i) \/ PoolStartAt(i))
        /\ PoolTokenIs({"STOPPED", "FATAL"}) =>
              /\ Ended => BrokerStatuses # {}
              /\ \A j \in Idx :
                    DebugServerAt(j) => \E i \in 1..(j - 1) : BrokerStatusAt(i)

\* A FATAL pool was restarted before the debug server was launched.
C19_Witness ==
    /\ task = "start_debug_server"
    /\ PoolTokenIs({"FATAL"})
    /\ \E i, j \in Idx : i < j /\ PoolStartAt(i) /\ DebugServerAt(j)

====
